---- MODULE Spec2Model ----
(***************************************************************************)
(* WatchMouse: the relevance filter (src/src/services/AIService.js) and    *)
(* the platform aggregator (src/src/services/SearchService.js).            *)
(*                                                                         *)
(* Text is modelled as a sequence of one-character strings, so that        *)
(* toLowerCase, split, trim, includes and parseInt are computed character  *)
(* by character, the way the JavaScript built-ins compute them.            *)
(***************************************************************************)
EXTENDS Integers, Sequences, FiniteSets, TLC

VARIABLES
    aiCall,         \* the AIService call under way: method, arguments, apiKey, HTTP outcome
    aiRet,          \* what that call returned (or that it raised)
    ebayApiKey,     \* EbaySearcher.apiKey, read from EBAY_API_KEY at construction
    searchService,  \* the SearchService in use: platformSettings and its two searchers
    searchCache,    \* the module-level Cache of search results, in Map insertion order
    rateData,       \* EbayRateLimiter.data (null until first loaded)
    rateStored,     \* the rate limit record in AsyncStorage
    now,            \* Date.now(), in ticks
    idSeq,          \* how many random id suffixes have been drawn
    searchCall,     \* the arguments of the last searchAllPlatforms call
    searchRet,      \* what that call returned, and what each searcher returned to it
    matches,        \* App state `matches`: the match collection in memory
    matchesStored,  \* the item STORAGE_KEYS.MATCHES in AsyncStorage
    matchesLoaded,  \* whether the loadMatches of the mount effect has completed
    isLoading,      \* App state `isLoading`
    run,            \* the runSearch call in flight: its search and the matches it closed over
    storeOp,        \* the last store handler that completed: its arguments and outcome
    viewArgs,       \* App state platformFilter, readFilter, matchFilter, matchSort
    view,           \* the memoized getFilteredAndSortedMatches
    searches,       \* App state `searches`: the saved searches in memory
    searchesStored, \* the item STORAGE_KEYS.SEARCHES in AsyncStorage
    newSearchQuery, \* App state `newSearchQuery`: the text in the add-search form
    settingsStored, \* the item STORAGE_KEYS.SETTINGS in AsyncStorage
    secureStored,   \* the item STORAGE_KEYS.SECURE_OPENROUTER_KEY in SecureStore
    settingsOp,     \* the last SettingsService call: its argument and what it returned
    cacheOp,        \* the last call on a Cache: method, key and what it returned
    ebayCalls,      \* the EbaySearcher.search calls under way, each at one of its awaits
    httpRequests    \* how many requests axios has sent to the eBay API

filterVars == <<aiCall, aiRet>>
searchVars == <<ebayApiKey, searchService, searchCache, rateData, rateStored, now, idSeq,
                searchCall, searchRet>>
storeVars == <<matches, matchesStored, matchesLoaded, isLoading, run, storeOp>>
viewVars == <<viewArgs, view>>
searchListVars == <<searches, searchesStored, newSearchQuery>>
settingsVars == <<settingsStored, secureStored, settingsOp>>
cacheVars == <<cacheOp>>
callVars == <<ebayCalls, httpRequests>>
otherVars == <<searchListVars, settingsVars, cacheVars, callVars>>
vars == <<filterVars, searchVars, storeVars, viewVars, otherVars>>

(***************************************************************************)
(* Bounds of the model.                                                    *)
(***************************************************************************)
MaxQueryLen == 3        \* characters of a search query
MaxListings == 2        \* listings handed to the filter
MaxResponseLen == 3     \* characters of an AI response handed to parseAIResponse
MaxContentLen == 2      \* characters of the AI response inside filterMatches
MaxItems == 1           \* items in an eBay API response
MaxTime == 2            \* ticks the clock runs
MaxIdSeq == 3           \* random id suffixes drawn in one behaviour
MaxCalls == 3           \* EbaySearcher.search calls in one behaviour
MaxCacheSize == 2       \* CACHE_CONFIG.MAX_CACHE_SIZE (50 in the program)
DailyLimit == 2         \* API_CONFIG.EBAY.DAILY_RATE_LIMIT (5000 in the program)
TicksPerDay == 2        \* ticks in a calendar day
MaxMatches == 2         \* matches in the collection
MaxViewMatches == 3     \* matches in a collection the view is computed over

QueryChars == {"a", "B", " "}
ResponseChars == {"0", "1", ",", "-", " ", "x"}
Titles == {<<"a">>, <<"A", " ", "b">>, <<"c">>}
FilterQueries == {<<"a">>, <<"a", " ", "B">>, <<"c", " ", " ", "a">>}

RECURSIVE StringsUpTo(_, _)
StringsUpTo(chars, n) ==
    IF n = 0 THEN {<<>>}
    ELSE LET shorter == StringsUpTo(chars, n - 1)
         IN  shorter \cup {Append(s, c) : s \in {t \in shorter : Len(t) = n - 1}, c \in chars}

Queries == StringsUpTo(QueryChars, MaxQueryLen)
Responses == StringsUpTo(ResponseChars, MaxResponseLen)
Contents == StringsUpTo(ResponseChars, MaxContentLen)

\* The listing lists handed to the filter: listing i is a distinct object (id i).
ListingLists ==
    UNION {{[i \in 1..n |-> [id |-> i, title |-> ts[i]]] : ts \in [1..n -> Titles]}
           : n \in 0..MaxListings}

(***************************************************************************)
(* JavaScript string built-ins.                                            *)
(***************************************************************************)
LowerLetters ==
    <<"a", "b", "c", "d", "e", "f", "g", "h", "i", "j", "k", "l", "m",
      "n", "o", "p", "q", "r", "s", "t", "u", "v", "w", "x", "y", "z">>
UpperLetters ==
    <<"A", "B", "C", "D", "E", "F", "G", "H", "I", "J", "K", "L", "M",
      "N", "O", "P", "Q", "R", "S", "T", "U", "V", "W", "X", "Y", "Z">>

IsUpper(c) == \E i \in 1..Len(UpperLetters) : UpperLetters[i] = c

ToLowerChar(c) ==
    IF IsUpper(c)
    THEN LowerLetters[CHOOSE i \in 1..Len(UpperLetters) : UpperLetters[i] = c]
    ELSE c

toLowerCase(s) == [i \in 1..Len(s) |-> ToLowerChar(s[i])]

\* String.prototype.split with a one-character separator: every separator
\* cuts, so adjacent separators and separators at the ends give empty pieces.
RECURSIVE split(_, _)
split(s, sep) ==
    LET hits == {i \in 1..Len(s) : s[i] = sep}
    IN  IF hits = {} THEN <<s>>
        ELSE LET i == CHOOSE k \in hits : \A j \in hits : k <= j
             IN  <<SubSeq(s, 1, i - 1)>> \o split(SubSeq(s, i + 1, Len(s)), sep)

\* String.prototype.includes
includes(s, sub) ==
    \E i \in 0..(Len(s) - Len(sub)) : SubSeq(s, i + 1, i + Len(sub)) = sub

IsWhitespace(c) == c \in {" ", "\t"}

\* String.prototype.trim
trim(s) ==
    LET solid == {i \in 1..Len(s) : ~IsWhitespace(s[i])}
    IN  IF solid = {} THEN <<>>
        ELSE LET lo == CHOOSE k \in solid : \A j \in solid : k <= j
                 hi == CHOOSE k \in solid : \A j \in solid : k >= j
             IN  SubSeq(s, lo, hi)

IsDigit(c) == c \in {"0", "1", "2", "3", "4", "5", "6", "7", "8", "9"}

DigitValue(c) ==
    CASE c = "0" -> 0 [] c = "1" -> 1 [] c = "2" -> 2 [] c = "3" -> 3
      [] c = "4" -> 4 [] c = "5" -> 5 [] c = "6" -> 6 [] c = "7" -> 7
      [] c = "8" -> 8 [] c = "9" -> 9

RECURSIVE DigitsValue(_)
DigitsValue(ds) ==
    IF ds = <<>> THEN 0
    ELSE 10 * DigitsValue(SubSeq(ds, 1, Len(ds) - 1)) + DigitValue(ds[Len(ds)])

\* parseInt(s, 10): skips leading whitespace, takes an optional sign and the
\* longest run of decimal digits, and ignores whatever follows; NaN when
\* there is no digit at that place.
parseInt(s) ==
    LET solid == {i \in 1..Len(s) : ~IsWhitespace(s[i])}
        start == IF solid = {} THEN Len(s) + 1
                 ELSE CHOOSE k \in solid : \A j \in solid : k <= j
        signed == start <= Len(s) /\ s[start] \in {"-", "+"}
        first == IF signed THEN start + 1 ELSE start
        stops == {i \in first..Len(s) : ~IsDigit(s[i])}
        last == IF stops = {} THEN Len(s)
                ELSE (CHOOSE k \in stops : \A j \in stops : k <= j) - 1
        magnitude == DigitsValue(SubSeq(s, first, last))
    IN  IF last < first THEN [nan |-> TRUE, n |-> 0]
        ELSE [nan |-> FALSE,
              n |-> IF signed /\ s[start] = "-" THEN 0 - magnitude ELSE magnitude]

(***************************************************************************)
(* AIService                                                               *)
(***************************************************************************)
NoHttp == [kind |-> "none", content |-> <<>>]

\* What the POST to the chat-completions endpoint can come to.
HttpOutcomes(contents) ==
    {[kind |-> k, content |-> <<>>] : k \in {"networkError", "timeout", "noContent"}}
        \cup {[kind |-> "content", content |-> c] : c \in contents}

\* The threshold rounded down instead of up.
ceilHalf_Floor(n) == n \div 2

\* Math.ceil(n * 0.5)
ceilHalf(n) == (n + 1) \div 2

fallbackFilter(searchQuery, results) ==
    LET keywords == split(toLowerCase(searchQuery), " ")
        Keep(result) ==
            LET title == toLowerCase(result.title)
                Present(keyword) == includes(title, keyword)
                matchCount == Len(SelectSeq(keywords, Present))
            IN  matchCount >= ceilHalf(Len(keywords))
    IN  SelectSeq(results, Keep)

parseAIResponse(aiResponse, results) ==
    LET tokens == split(aiResponse, ",")
        parsed == [i \in 1..Len(tokens) |-> parseInt(trim(tokens[i]))]
        InRange(p) == ~p.nan /\ p.n >= 0 /\ p.n < Len(results)
        indices == SelectSeq(parsed, InRange)
    IN  [i \in 1..Len(indices) |-> results[indices[i].n + 1]]

\* axios.post rejects on a network error or a timeout; a response whose
\* choices[0].message.content is missing or empty is thrown as invalid.
callAI(http) ==
    IF http.kind = "content" /\ http.content # <<>>
    THEN [threw |-> FALSE, content |-> http.content]
    ELSE [threw |-> TRUE, content |-> <<>>]

\* filterMatches falling back to the keywords whenever the AI names no listing.
filterMatches_FallbackOnEmpty(searchQuery, results, apiKey, http) ==
    LET response == callAI(http)
        parsed == parseAIResponse(response.content, results)
    IN  IF apiKey = "" \/ response.threw \/ parsed = <<>>
        THEN [raised |-> FALSE, value |-> fallbackFilter(searchQuery, results)]
        ELSE [raised |-> FALSE, value |-> parsed]

\* filterMatches without its try/catch: a failing AI call reaches the caller.
filterMatches_NoCatch(searchQuery, results, apiKey, http) ==
    IF apiKey = ""
    THEN [raised |-> FALSE, value |-> fallbackFilter(searchQuery, results)]
    ELSE LET response == callAI(http)
         IN  IF response.threw
             THEN [raised |-> TRUE, value |-> <<>>]
             ELSE [raised |-> FALSE, value |-> parseAIResponse(response.content, results)]

filterMatches(searchQuery, results, apiKey, http) ==
    IF apiKey = ""
    THEN [raised |-> FALSE, value |-> fallbackFilter(searchQuery, results)]
    ELSE LET response == callAI(http)
         IN  IF response.threw
             THEN [raised |-> FALSE, value |-> fallbackFilter(searchQuery, results)]
             ELSE [raised |-> FALSE, value |-> parseAIResponse(response.content, results)]

(***************************************************************************)
(* Cache (src/src/utils/performance.js): a Map kept in insertion order.    *)
(***************************************************************************)
\* CACHE_CONFIG.SEARCH_RESULTS_TTL: five minutes, which is one tick.
SEARCH_RESULTS_TTL == 1

RemoveAt(seq, i) == SubSeq(seq, 1, i - 1) \o SubSeq(seq, i + 1, Len(seq))

CachePositions(cache, key) == {i \in 1..Len(cache) : cache[i].key = key}

\* Cache.get returning what it holds for the key, expired or not.
Cache_get_NoExpiry(cache, key, t) ==
    LET at == CachePositions(cache, key)
    IN  IF at = {} THEN [found |-> FALSE, value |-> <<>>, cache |-> cache]
        ELSE [found |-> TRUE, value |-> cache[CHOOSE k \in at : TRUE].value, cache |-> cache]

\* Cache.get: the value, unless the key is absent or its entry has expired
\* (an expired entry is deleted).
Cache_get(cache, key, t) ==
    LET at == CachePositions(cache, key)
    IN  IF at = {} THEN [found |-> FALSE, value |-> <<>>, cache |-> cache]
        ELSE LET i == CHOOSE k \in at : TRUE
             IN  IF t > cache[i].expiresAt
                 THEN [found |-> FALSE, value |-> <<>>, cache |-> RemoveAt(cache, i)]
                 ELSE [found |-> TRUE, value |-> cache[i].value, cache |-> cache]

\* Cache.set that never deletes.
Cache_set_Unbounded(cache, key, value, ttl, t) ==
    LET at == CachePositions(cache, key)
        entry == [key |-> key, value |-> value, expiresAt |-> t + ttl, createdAt |-> t]
    IN  IF at = {} THEN Append(cache, entry)
        ELSE [cache EXCEPT ![CHOOSE k \in at : TRUE] = entry]

\* Cache.set: a new key on a full cache first deletes the first key of the Map;
\* a key already present keeps its place.
Cache_set(cache, key, value, ttl, t) ==
    LET at == CachePositions(cache, key)
        entry == [key |-> key, value |-> value, expiresAt |-> t + ttl, createdAt |-> t]
    IN  IF at = {}
        THEN Append(IF Len(cache) >= MaxCacheSize THEN Tail(cache) ELSE cache, entry)
        ELSE [cache EXCEPT ![CHOOSE k \in at : TRUE] = entry]

(***************************************************************************)
(* EbayRateLimiter (src/unnamed/part_010)                                  *)
(***************************************************************************)
\* new Date().toDateString()
Today(t) == t \div TicksPerDay

NoRateData == [loaded |-> FALSE, date |-> 0, count |-> 0]
NothingStored == [present |-> FALSE, date |-> 0, count |-> 0]

createNewData(t) == [loaded |-> TRUE, date |-> Today(t), count |-> 0]

save(data) == [present |-> TRUE, date |-> data.date, count |-> data.count]

\* load: the stored record if it is of today, else a fresh one, which is saved.
load(stored, t) ==
    IF stored.present /\ stored.date = Today(t)
    THEN [data |-> [loaded |-> TRUE, date |-> stored.date, count |-> stored.count],
          stored |-> stored]
    ELSE [data |-> createNewData(t), stored |-> save(createNewData(t))]

\* The limiter's data once `if (!this.data) await this.load()` has run.
Loaded(data, stored, t) ==
    IF data.loaded THEN [data |-> data, stored |-> stored] ELSE load(stored, t)

\* API_CONFIG.EBAY.WARNING_THRESHOLD and CRITICAL_THRESHOLD, in percent.
WARNING_THRESHOLD == 80
CRITICAL_THRESHOLD == 95

\* The level checkLimit reports for a count.
Level(count) ==
    IF count >= DailyLimit THEN "error"
    ELSE IF count * 100 >= CRITICAL_THRESHOLD * DailyLimit THEN "critical"
    ELSE IF count * 100 >= WARNING_THRESHOLD * DailyLimit THEN "warning"
    ELSE "normal"

\* checkLimit refusing only once the count is over the limit.
checkLimit_Over(data, stored, t) ==
    LET l == Loaded(data, stored, t)
    IN  [canProceed |-> ~(l.data.count > DailyLimit),
         level |-> IF l.data.count > DailyLimit THEN "error" ELSE "normal",
         remaining |-> IF l.data.count > DailyLimit THEN 0 ELSE DailyLimit - l.data.count,
         data |-> l.data, stored |-> l.stored]

checkLimit(data, stored, t) ==
    LET l == Loaded(data, stored, t)
    IN  [canProceed |-> ~(l.data.count >= DailyLimit),
         level |-> Level(l.data.count),
         remaining |-> IF l.data.count >= DailyLimit THEN 0 ELSE DailyLimit - l.data.count,
         data |-> l.data, stored |-> l.stored]

incrementCount(data, stored, t) ==
    LET l == Loaded(data, stored, t)
        bumped == [l.data EXCEPT !.count = @ + 1]
    IN  [data |-> bumped, stored |-> save(bumped)]

(***************************************************************************)
(* SearchService, EbaySearcher, KleinanzeigenSearcher                      *)
(***************************************************************************)
EBAY == "eBay"
KLEINANZEIGEN == "Kleinanzeigen"

\* maxPrice = null: the code tests maxPrice for truthiness only.
NoMaxPrice == 0

Missing == <<"<", "m", "i", "s", "s", "i", "n", "g", ">">>

\* The items the eBay Finding API may send. The API is asked for MaxPrice but
\* answers what it answers.
EbayItems ==
    {[itemId |-> 1, title |-> <<"a">>, price |-> 90],
     [itemId |-> 2, title |-> Missing, price |-> 150]}

ItemLists ==
    {items \in UNION {[1..n -> EbayItems] : n \in 0..MaxItems} :
        \A i, j \in 1..Len(items) : i < j => items[i].itemId < items[j].itemId}

\* What axios.get on the Finding API can come to.
EbayOutcomes ==
    {[kind |-> k, items |-> <<>>] : k \in {"networkError", "timeout", "malformed"}}
        \cup {[kind |-> "items", items |-> items] : items \in ItemLists}

\* The searches made: a blank query, and a query without and with a price cap.
SearchInputs ==
    {[query |-> <<" ">>, maxPrice |-> NoMaxPrice],
     [query |-> <<"a">>, maxPrice |-> NoMaxPrice],
     [query |-> <<"a">>, maxPrice |-> 100]}

\* `ebay:${query}:${maxPrice || 'no-max'}`
cacheKey(query, maxPrice) == <<"ebay", query, maxPrice>>

\* parseAPIResponse: one listing per item, each id with a random suffix of its
\* own; a response without the expected structure gives the empty list.
parseAPIResponse(data, seq) ==
    IF data.kind # "items" THEN <<>>
    ELSE [i \in 1..Len(data.items) |->
            [id |-> <<EBAY, data.items[i].itemId, seq + i>>,
             title |-> IF data.items[i].title = Missing
                       THEN <<"N", "o", " ", "t", "i", "t", "l", "e">>
                       ELSE data.items[i].title,
             price |-> data.items[i].price,
             platform |-> EBAY,
             origin |-> "api"]]

\* What a searcher's search comes to: the value returned (or that it threw),
\* whether an HTTP request went out, and the cache, the limiter and the id
\* suffixes as the call leaves them. called records that search was called.
SearchOutcome(threw, value, requested, cache, limiter, seq) ==
    [called |-> TRUE, threw |-> threw, value |-> value, requested |-> requested,
     cache |-> cache, data |-> limiter.data, stored |-> limiter.stored, seq |-> seq]

\* The end of searchWithAPI once axios.get has resolved: the count is
\* incremented, then the response is parsed.
searchWithAPI_resolved(listings, cache, limiter, seq) ==
    SearchOutcome(FALSE, listings, TRUE, cache, limiter, seq + Len(listings))

\* The mock listings the eBay searcher used to return.
EbayMockResults(query, seq) ==
    <<[id |-> <<EBAY, 0, seq + 1>>, title |-> query \o <<" ", "P", "r", "o">>,
       price |-> 100, platform |-> EBAY, origin |-> "mock"]>>

\* EbaySearcher.search falling back to mock listings when the API call fails.
EbaySearcher_search_MockOnError(query, cache, limiter, seq) ==
    SearchOutcome(FALSE, EbayMockResults(query, seq), TRUE, cache, limiter, seq + 1)

\* The catch block of EbaySearcher.search: log and return the empty list.
EbaySearcher_search_catch(query, cache, limiter, seq) ==
    SearchOutcome(FALSE, <<>>, TRUE, cache, limiter, seq)

\* searchWithAPI inside the try block of EbaySearcher.search: no request for a
\* blank query; a request that rejects lands in the catch block; what
\* searchWithAPI returns is cached and returned.
EbaySearcher_search_try(query, maxPrice, upstream, cache, limiter, seq, t) ==
    IF trim(query) = <<>>
    THEN SearchOutcome(FALSE, <<>>, FALSE,
                       Cache_set(cache, cacheKey(query, maxPrice), <<>>, SEARCH_RESULTS_TTL, t),
                       limiter, seq)
    ELSE IF upstream.kind \in {"networkError", "timeout"}
    THEN EbaySearcher_search_catch(query, cache, limiter, seq)
    ELSE searchWithAPI_resolved(
             parseAPIResponse(upstream, seq),
             Cache_set(cache, cacheKey(query, maxPrice), parseAPIResponse(upstream, seq),
                       SEARCH_RESULTS_TTL, t),
             incrementCount(limiter.data, limiter.stored, t),
             seq)

\* EbaySearcher.search after the rate limit check.
EbaySearcher_search_limited(limitCheck, query, maxPrice, upstream, cache, seq, t) ==
    IF ~limitCheck.canProceed
    THEN SearchOutcome(FALSE, <<>>, FALSE, cache, limitCheck, seq)
    ELSE EbaySearcher_search_try(query, maxPrice, upstream, cache, limitCheck, seq, t)

\* EbaySearcher.search answering with mock listings when no API key is set.
EbaySearcher_search_uncached_MockWithoutKey(cached, query, maxPrice, upstream, apiKey, limiter, seq, t) ==
    IF cached.found
    THEN SearchOutcome(FALSE, cached.value, FALSE, cached.cache, limiter, seq)
    ELSE IF apiKey = ""
    THEN SearchOutcome(FALSE, EbayMockResults(query, seq), FALSE, cached.cache, limiter, seq + 1)
    ELSE EbaySearcher_search_limited(checkLimit(limiter.data, limiter.stored, t),
                                     query, maxPrice, upstream, cached.cache, seq, t)

\* EbaySearcher.search after the cache lookup.
EbaySearcher_search_uncached(cached, query, maxPrice, upstream, apiKey, limiter, seq, t) ==
    IF cached.found
    THEN SearchOutcome(FALSE, cached.value, FALSE, cached.cache, limiter, seq)
    ELSE IF apiKey = ""
    THEN SearchOutcome(FALSE, <<>>, FALSE, cached.cache, limiter, seq)
    ELSE EbaySearcher_search_limited(checkLimit(limiter.data, limiter.stored, t),
                                     query, maxPrice, upstream, cached.cache, seq, t)

EbaySearcher_search(query, maxPrice, upstream, apiKey, cache, limiter, seq, t) ==
    EbaySearcher_search_uncached(Cache_get(cache, cacheKey(query, maxPrice), t),
                                 query, maxPrice, upstream, apiKey, limiter, seq, t)

\* The mock items of KleinanzeigenSearcher.getMockResults.
KleinanzeigenMockItems(query) ==
    <<[title |-> query \o <<" ", "n", "e", "u", "w", "e", "r", "t", "i", "g">>, price |-> 120],
      [title |-> query \o <<" ", "g", "u", "e", "n", "s", "t", "i", "g", " ", "a", "b", "z", "u",
                             "g", "e", "b", "e", "n">>, price |-> 90],
      [title |-> <<"V", "e", "r", "k", "a", "u", "f", "e", " ">> \o query, price |-> 140]>>

\* !maxPrice || item.price <= maxPrice
WithinMaxPrice(item, maxPrice) == maxPrice = NoMaxPrice \/ item.price <= maxPrice

getMockResults(query, maxPrice, platform, seq) ==
    LET Affordable(item) == WithinMaxPrice(item, maxPrice)
        kept == SelectSeq(KleinanzeigenMockItems(query), Affordable)
    IN  [idx \in 1..Len(kept) |->
            [id |-> <<platform, idx - 1, seq + idx>>,
             title |-> kept[idx].title,
             price |-> kept[idx].price,
             platform |-> platform,
             origin |-> "mock"]]

KleinanzeigenSearcher_search(query, maxPrice, cache, limiter, seq) ==
    SearchOutcome(FALSE, getMockResults(query, maxPrice, KLEINANZEIGEN, seq), FALSE, cache,
                  limiter, seq + Len(getMockResults(query, maxPrice, KLEINANZEIGEN, seq)))

\* The SearchService constructor: a platform is enabled unless its setting is
\* given and false.
PlatformSettingsInputs == [ebayEnabled : {"undefined", "true", "false"},
                           kleinanzeigenEnabled : {"undefined", "true", "false"}]

\* new SearchService(): platformSettings = {}
NoPlatformSettings == [ebayEnabled |-> "undefined", kleinanzeigenEnabled |-> "undefined"]

SearchService_new(platformSettings) ==
    [ebayEnabled |-> IF platformSettings.ebayEnabled # "undefined"
                     THEN platformSettings.ebayEnabled = "true" ELSE TRUE,
     kleinanzeigenEnabled |-> IF platformSettings.kleinanzeigenEnabled # "undefined"
                              THEN platformSettings.kleinanzeigenEnabled = "true" ELSE TRUE]

NotInvoked == [invoked |-> FALSE, threw |-> FALSE, value |-> <<>>]

\* A searcher that throws.
FailingSearch(cache, limiter, seq) == SearchOutcome(TRUE, <<>>, FALSE, cache, limiter, seq)

\* A platform whose if block is skipped: its searcher is not called.
Skipped(cache, limiter, seq) ==
    [SearchOutcome(FALSE, <<>>, FALSE, cache, limiter, seq) EXCEPT !.called = FALSE]

\* A platform's turn in searchAllPlatforms: what its searcher returned is
\* pushed onto results, what it threw is caught and logged.
Pushed(results, outcome) == IF outcome.threw THEN results ELSE results \o outcome.value

Turn(outcome) == [invoked |-> outcome.called, threw |-> outcome.threw, value |-> outcome.value]

\* searchAllPlatforms without its try blocks: what a searcher throws goes on
\* to the caller.
searchAllPlatforms_return_NoCatch(e, k) ==
    [threw |-> e.threw \/ k.threw,
     value |-> IF e.threw \/ k.threw THEN <<>> ELSE e.value \o k.value,
     ebay |-> Turn(e),
     kleinanzeigen |-> Turn(k),
     requested |-> e.requested,
     cache |-> k.cache, data |-> k.data, stored |-> k.stored, seq |-> k.seq]

\* The return of searchAllPlatforms; e and k are what the eBay and the
\* Kleinanzeigen halves came to.
searchAllPlatforms_return(e, k) ==
    [threw |-> FALSE,
     value |-> Pushed(Pushed(<<>>, e), k),
     ebay |-> Turn(e),
     kleinanzeigen |-> Turn(k),
     requested |-> e.requested,
     cache |-> k.cache, data |-> k.data, stored |-> k.stored, seq |-> k.seq]

\* A platform's searcher called whatever platformSettings says.
PlatformSearch_IgnoreSettings(enabled, failing, outcome, cache, limiter, seq) ==
    IF failing THEN FailingSearch(cache, limiter, seq) ELSE outcome

\* A searcher is called only if its platform is enabled. A searcher in
\* service.failing is one that throws.
PlatformSearch(enabled, failing, outcome, cache, limiter, seq) ==
    IF ~enabled THEN Skipped(cache, limiter, seq)
    ELSE IF failing THEN FailingSearch(cache, limiter, seq)
    ELSE outcome

\* The Kleinanzeigen half of searchAllPlatforms; e is what the eBay half came to.
searchAllPlatforms_kleinanzeigen(service, e, query, maxPrice) ==
    searchAllPlatforms_return(e,
        PlatformSearch(service.platformSettings.kleinanzeigenEnabled,
                       KLEINANZEIGEN \in service.failing,
                       KleinanzeigenSearcher_search(query, maxPrice, e.cache, e, e.seq),
                       e.cache, e, e.seq))

searchAllPlatforms(service, query, maxPrice, upstream, apiKey, cache, limiter, seq, t) ==
    searchAllPlatforms_kleinanzeigen(service,
        PlatformSearch(service.platformSettings.ebayEnabled,
                       EBAY \in service.failing,
                       EbaySearcher_search(query, maxPrice, upstream, apiKey, cache, limiter,
                                           seq, t),
                       cache, limiter, seq),
        query, maxPrice)

(***************************************************************************)
(* The match store of App.js (src/eslint.config.js): the `matches` state   *)
(* and its copy in AsyncStorage.                                           *)
(***************************************************************************)
\* A match is a listing with searchId, foundAt and isRead. hasIsRead is FALSE
\* for a record written before isRead existed (m.isRead === undefined).
Match(listing, searchId, foundAt, isRead) ==
    [id |-> listing.id, title |-> listing.title, price |-> listing.price,
     platform |-> listing.platform, origin |-> listing.origin,
     searchId |-> searchId, foundAt |-> foundAt, hasIsRead |-> TRUE, isRead |-> isRead]

NoStoredMatches == [present |-> FALSE, records |-> <<>>]

\* saveMatches: setItem, then setMatches; a write that rejects is logged and
\* neither the item nor the state changes.
saveMatches(newMatches, current, stored, writeOk) ==
    IF writeOk
    THEN [matches |-> newMatches, stored |-> [present |-> TRUE, records |-> newMatches]]
    ELSE [matches |-> current, stored |-> stored]

\* saveSearches: setItem, then setSearches; a write that rejects is logged
\* and neither the item nor the state changes.
saveSearches(newSearches, current, stored, writeOk) ==
    IF writeOk
    THEN [searches |-> newSearches, stored |-> [present |-> TRUE, records |-> newSearches]]
    ELSE [searches |-> current, stored |-> stored]

\* loadSearches: the stored searches, if there are any.
loadSearches(current, stored) == IF stored.present THEN stored.records ELSE current

\* addSearch's newSearch: the id is made of the time and a random suffix, so
\* it is one no search has had; the price field of the form is left empty.
newSearch(id, query) == [id |-> id, query |-> query, maxPrice |-> NoMaxPrice]

\* searches.filter(s => s.id !== searchId)
deleteSearch(ss, searchId) ==
    LET Other(search) == search.id # searchId
    IN  SelectSeq(ss, Other)

\* runSearch's collection made of the new matches alone.
appendMatches_OnlyNew(ms, matchedResults, searchId, t) ==
    [i \in 1..Len(matchedResults) |-> Match(matchedResults[i], searchId, t, FALSE)]

\* loadMatches setting the records as they were stored.
loadMatches_NoMigration(current, stored) ==
    IF stored.present THEN stored.records ELSE current

\* loadMatches: the stored records, each given isRead = false if it has none.
loadMatches(current, stored) ==
    IF stored.present
    THEN [i \in 1..Len(stored.records) |->
            [stored.records[i] EXCEPT
                !.hasIsRead = TRUE,
                !.isRead = IF stored.records[i].hasIsRead THEN stored.records[i].isRead
                           ELSE FALSE]]
    ELSE current

\* toggleMatchRead marking the match read instead of flipping it.
toggleMatchRead_MarkRead(ms, matchId) ==
    [i \in 1..Len(ms) |->
        IF ms[i].id = matchId THEN [ms[i] EXCEPT !.isRead = TRUE] ELSE ms[i]]

\* toggleMatchRead flipping the first match only, whatever its id.
toggleMatchRead_First(ms, matchId) ==
    [i \in 1..Len(ms) |-> IF i = 1 THEN [ms[i] EXCEPT !.isRead = ~ms[i].isRead] ELSE ms[i]]

\* matches.map(m => m.id === matchId ? { ...m, isRead: !m.isRead } : m)
toggleMatchRead(ms, matchId) ==
    [i \in 1..Len(ms) |->
        IF ms[i].id = matchId THEN [ms[i] EXCEPT !.isRead = ~ms[i].isRead] ELSE ms[i]]

\* markAllAsRead leaving the last match as it is.
markAllAsRead_ButLast(ms) ==
    [i \in 1..Len(ms) |-> IF i < Len(ms) THEN [ms[i] EXCEPT !.isRead = TRUE] ELSE ms[i]]

\* matches.map(m => ({ ...m, isRead: true }))
markAllAsRead(ms) == [i \in 1..Len(ms) |-> [ms[i] EXCEPT !.isRead = TRUE]]

\* runSearch's new matches put before the collection.
appendMatches_Prepend(ms, matchedResults, searchId, t) ==
    [i \in 1..Len(matchedResults) |-> Match(matchedResults[i], searchId, t, FALSE)] \o ms

\* [...matches, ...matchedResults.map(result => ({ ...result, searchId,
\*  foundAt, isRead: false }))]
appendMatches(ms, matchedResults, searchId, t) ==
    ms \o [i \in 1..Len(matchedResults) |-> Match(matchedResults[i], searchId, t, FALSE)]

(***************************************************************************)
(* The match view of App.js: getFilteredAndSortedMatches.                  *)
(***************************************************************************)
\* String.prototype.localeCompare, as far as the titles here go: the strings
\* are compared letter by letter without regard to case, a space before any
\* letter and a prefix before its extensions; strings equal up to case are
\* ordered by their first difference in case, lower case first.
CollationRank(c) ==
    IF c = " " THEN 0
    ELSE CHOOSE i \in 1..Len(LowerLetters) : LowerLetters[i] = ToLowerChar(c)

RECURSIVE ComparePrimary(_, _)
ComparePrimary(a, b) ==
    IF a = <<>> /\ b = <<>> THEN 0
    ELSE IF a = <<>> THEN -1
    ELSE IF b = <<>> THEN 1
    ELSE IF CollationRank(a[1]) # CollationRank(b[1])
         THEN CollationRank(a[1]) - CollationRank(b[1])
         ELSE ComparePrimary(Tail(a), Tail(b))

RECURSIVE CompareCase(_, _)
CompareCase(a, b) ==
    IF a = <<>> \/ b = <<>> THEN 0
    ELSE IF a[1] = b[1] THEN CompareCase(Tail(a), Tail(b))
    ELSE IF IsUpper(a[1]) THEN 1 ELSE -1

localeCompare(a, b) ==
    IF ComparePrimary(a, b) # 0 THEN ComparePrimary(a, b) ELSE CompareCase(a, b)

\* The comparator handed to sort.
compareMatches(a, b, matchSort) ==
    CASE matchSort = "date-asc" -> a.foundAt - b.foundAt
      [] matchSort = "date-desc" -> b.foundAt - a.foundAt
      [] matchSort = "price-asc" -> a.price - b.price
      [] matchSort = "price-desc" -> b.price - a.price
      [] matchSort = "title-asc" -> localeCompare(a.title, b.title)
      [] OTHER -> 0

\* Array.prototype.sort is stable: an element goes behind the elements that
\* do not compare greater than it.
RECURSIVE InsertSorted(_, _, _)
InsertSorted(sorted, m, matchSort) ==
    IF sorted = <<>> THEN <<m>>
    ELSE IF compareMatches(sorted[Len(sorted)], m, matchSort) <= 0 THEN Append(sorted, m)
    ELSE Append(InsertSorted(SubSeq(sorted, 1, Len(sorted) - 1), m, matchSort),
                sorted[Len(sorted)])

RECURSIVE sort(_, _)
sort(ms, matchSort) ==
    IF ms = <<>> THEN <<>>
    ELSE InsertSorted(sort(SubSeq(ms, 1, Len(ms) - 1), matchSort), ms[Len(ms)], matchSort)

\* The filters of getFilteredAndSortedMatches with the platform filter alone.
filterMatchesForView_PlatformOnly(ms, args) ==
    LET OfPlatform(m) == args.platformFilter = "all" \/ m.platform = args.platformFilter
    IN  SelectSeq(ms, OfPlatform)

\* The three filters of getFilteredAndSortedMatches, one after the other.
filterMatchesForView(ms, args) ==
    LET OfPlatform(m) == args.platformFilter = "all" \/ m.platform = args.platformFilter
        OfReadStatus(m) ==
            \/ args.readFilter = "all"
            \/ IF args.readFilter = "unread" THEN ~m.isRead ELSE m.isRead
        OfTitle(m) ==
            \/ trim(args.matchFilter) = <<>>
            \/ includes(toLowerCase(m.title), toLowerCase(args.matchFilter))
    IN  SelectSeq(SelectSeq(SelectSeq(ms, OfPlatform), OfReadStatus), OfTitle)

\* getFilteredAndSortedMatches sorting the filtered array itself: with no
\* filter active that array is the matches state.
getFilteredAndSortedMatches_InPlace(ms, args) ==
    [view |-> sort(filterMatchesForView(ms, args), args.matchSort),
     matches |-> IF filterMatchesForView(ms, args) = ms
                 THEN sort(ms, args.matchSort) ELSE ms]

\* getFilteredAndSortedMatches: a copy of the filtered matches, sorted; the
\* matches state is what it was.
getFilteredAndSortedMatches(ms, args) ==
    [view |-> sort(filterMatchesForView(ms, args), args.matchSort), matches |-> ms]

\* matches.filter(m => !m.isRead).length
unreadCount(ms) == Cardinality({i \in 1..Len(ms) : ~ms[i].isRead})

\* The values the filter and sort controls can take.
PlatformFilters == {"all", EBAY, KLEINANZEIGEN}
ReadFilters == {"all", "unread", "read"}
MatchSorts == {"date-desc", "date-asc", "price-asc", "price-desc", "title-asc"}
MatchFilterTexts == {<<>>, <<" ">>, <<"a">>, <<"B">>}

AllViewArgs ==
    [platformFilter : PlatformFilters, readFilter : ReadFilters,
     matchFilter : MatchFilterTexts, matchSort : MatchSorts]

DefaultViewArgs ==
    [platformFilter |-> "all", readFilter |-> "all", matchFilter |-> <<>>,
     matchSort |-> "date-desc"]

NoRun == [active |-> FALSE, searchId |-> 0, query |-> <<>>, maxPrice |-> NoMaxPrice,
          matches |-> <<>>]
NoStoreOp == [op |-> "none", matched |-> <<>>, writeOk |-> TRUE, alert |-> "none"]

\* The store side before the app is mounted.
StoreAtRest ==
    /\ matches = <<>>
    /\ matchesStored = NoStoredMatches
    /\ matchesLoaded = FALSE
    /\ isLoading = FALSE
    /\ run = NoRun
    /\ storeOp = NoStoreOp
    /\ viewArgs = DefaultViewArgs
    /\ view = <<>>

NoSearchCall == [query |-> <<>>, maxPrice |-> NoMaxPrice, upstream |-> "none"]
NoSearchRet == [done |-> FALSE, threw |-> FALSE, value |-> <<>>,
                ebay |-> NotInvoked, kleinanzeigen |-> NotInvoked, requested |-> FALSE]

NoSearches == [present |-> FALSE, records |-> <<>>]
DEFAULT_SETTINGS ==
    [openrouterApiKey |-> "", ebayEnabled |-> TRUE, kleinanzeigenEnabled |-> TRUE]

\* const { openrouterApiKey, ...nonSensitiveSettings } = settings
Rest(object, field) == [f \in DOMAIN object \ {field} |-> object[f]]

\* An item that is not in the store: getItem gives null, and value is of no
\* account.
NoSettingsItem == [present |-> FALSE, value |-> Rest(DEFAULT_SETTINGS, "openrouterApiKey")]
NoSecureItem == [present |-> FALSE, value |-> ""]

\* settings is the argument of a saveSettings and ok what it returned, loaded
\* what a loadSettings returned.
NoSettingsOp ==
    [op |-> "none", settings |-> DEFAULT_SETTINGS, ok |-> FALSE, loaded |-> DEFAULT_SETTINGS]
\* hit and value are what get or has returned, expired that the entry was
\* found expired and deleted.
NoCacheOp == [op |-> "none", key |-> 0, hit |-> FALSE, value |-> <<>>, expired |-> FALSE]

\* The saved searches, the settings, a Cache on its own and the concurrent
\* eBay calls, where a specification does not follow them.
SearchListAtRest ==
    /\ searches = <<>>
    /\ searchesStored = NoSearches
    /\ newSearchQuery = <<>>

SettingsAtRest ==
    /\ settingsStored = NoSettingsItem
    /\ secureStored = NoSecureItem
    /\ settingsOp = NoSettingsOp

CacheAtRest == cacheOp = NoCacheOp

CallsAtRest ==
    /\ ebayCalls = <<>>
    /\ httpRequests = 0

OthersAtRest ==
    /\ SearchListAtRest
    /\ SettingsAtRest
    /\ CacheAtRest
    /\ CallsAtRest

\* The search side before any search.
SearchAtRest ==
    /\ searchCache = <<>>
    /\ rateData = NoRateData
    /\ now = 0
    /\ idSeq = 0
    /\ searchCall = NoSearchCall
    /\ searchRet = NoSearchRet

\* The filter side when no AIService call is modelled.
FilterAtRest ==
    /\ aiCall = [method |-> "none", searchQuery |-> <<>>, results |-> <<>>,
                 apiKey |-> "", http |-> [kind |-> "none", content |-> <<>>]]
    /\ aiRet = [done |-> FALSE, raised |-> FALSE, value |-> <<>>]

(***************************************************************************)
(* The filter on its own: one call of one AIService method per behaviour.  *)
(***************************************************************************)
NoRet == [done |-> FALSE, raised |-> FALSE, value |-> <<>>]

AICall(method, searchQuery, results, apiKey, http) ==
    [method |-> method, searchQuery |-> searchQuery, results |-> results,
     apiKey |-> apiKey, http |-> http]

\* The call to make: fallbackFilter on any query, parseAIResponse on any
\* response text, or filterMatches without an API key or with one and any
\* outcome of the AI request.
InitFilter ==
    /\ \E results \in ListingLists :
          \/ \E q \in Queries : aiCall = AICall("fallbackFilter", q, results, "", NoHttp)
          \/ \E r \in Responses :
                aiCall = AICall("parseAIResponse", <<>>, results, "",
                                [kind |-> "content", content |-> r])
          \/ \E q \in FilterQueries :
                \/ aiCall = AICall("filterMatches", q, results, "", NoHttp)
                \/ \E h \in HttpOutcomes(Contents) :
                      aiCall = AICall("filterMatches", q, results, "sk-key", h)
    /\ aiRet = NoRet
    /\ ebayApiKey = ""
    /\ searchService = [platformSettings |-> SearchService_new(NoPlatformSettings),
                        failing |-> {}]
    /\ rateStored = NothingStored
    /\ SearchAtRest
    /\ OthersAtRest
    /\ StoreAtRest

FallbackFilterCall ==
    /\ aiCall.method = "fallbackFilter"
    /\ ~aiRet.done
    /\ aiRet' = [done |-> TRUE, raised |-> FALSE,
                 value |-> fallbackFilter(aiCall.searchQuery, aiCall.results)]
    /\ UNCHANGED <<aiCall, searchVars, storeVars, viewVars, otherVars>>

ParseAIResponseCall ==
    /\ aiCall.method = "parseAIResponse"
    /\ ~aiRet.done
    /\ aiRet' = [done |-> TRUE, raised |-> FALSE,
                 value |-> parseAIResponse(aiCall.http.content, aiCall.results)]
    /\ UNCHANGED <<aiCall, searchVars, storeVars, viewVars, otherVars>>

FilterMatchesCall ==
    /\ aiCall.method = "filterMatches"
    /\ ~aiRet.done
    /\ LET r == filterMatches(aiCall.searchQuery, aiCall.results, aiCall.apiKey, aiCall.http)
       IN  aiRet' = [done |-> TRUE, raised |-> r.raised, value |-> r.value]
    /\ UNCHANGED <<aiCall, searchVars, storeVars, viewVars, otherVars>>

NextFilter ==
    \/ FallbackFilterCall
    \/ ParseAIResponseCall
    \/ FilterMatchesCall

SpecFilter == InitFilter /\ [][NextFilter]_vars

(***************************************************************************)
(* Properties of the relevance filter (checked under SpecFilter).          *)
(***************************************************************************)
FilterReturned(method) == aiCall.method = method /\ aiRet.done

\* The positions of the keywords of searchQuery found in the lowercased title.
KeywordHits(searchQuery, title) ==
    LET keywords == split(toLowerCase(searchQuery), " ")
    IN  {k \in 1..Len(keywords) : includes(toLowerCase(title), keywords[k])}

\* The positions of the listings that reach the threshold: at least half of
\* the keywords, rounded up.
Qualifying(searchQuery, results) ==
    LET keywordCount == Len(split(toLowerCase(searchQuery), " "))
    IN  {i \in 1..Len(results) :
            2 * Cardinality(KeywordHits(searchQuery, results[i].title)) >= keywordCount}

\* list is exactly the elements of results at the positions in keep, in order.
IsSelection(list, results, keep) ==
    /\ Len(list) = Cardinality(keep)
    /\ \A j \in 1..Len(list) :
          \E i \in keep : /\ Cardinality({k \in keep : k < i}) = j - 1
                          /\ list[j] = results[i]

\* C1: fallbackFilter(q, L) returns exactly the listings of L, in input order,
\* whose count of query keywords found in the lowercased title is at least
\* ceil(keywordCount * 0.5); nothing else is returned and nothing that
\* qualifies is dropped.
C1_FallbackFilterExact ==
    FilterReturned("fallbackFilter") =>
        /\ ~aiRet.raised
        /\ IsSelection(aiRet.value, aiCall.results,
                       Qualifying(aiCall.searchQuery, aiCall.results))

C1_Witness ==
    /\ FilterReturned("fallbackFilter")
    /\ Len(split(toLowerCase(aiCall.searchQuery), " ")) = 2
    /\ Len(aiCall.results) = 2
    /\ Len(aiRet.value) = 1
    /\ aiRet.value[1] = aiCall.results[2]

\* q with leading and trailing whitespace removed and every run of whitespace
\* replaced by one space.
RECURSIVE CollapseWhitespace(_)
CollapseWhitespace(s) ==
    IF Len(s) <= 1 THEN s
    ELSE IF IsWhitespace(s[1])
         THEN IF IsWhitespace(s[2]) THEN CollapseWhitespace(Tail(s))
              ELSE <<" ">> \o CollapseWhitespace(Tail(s))
         ELSE <<s[1]>> \o CollapseWhitespace(Tail(s))

NormalizeWhitespace(s) == CollapseWhitespace(trim(s))

\* C2: the keywords are the non-empty whitespace-separated words of the
\* query, so fallbackFilter(q, L) equals fallbackFilter(q', L) for q' the
\* whitespace-normalised q.
C2_WhitespaceNormalised ==
    FilterReturned("fallbackFilter") =>
        aiRet.value = fallbackFilter(NormalizeWhitespace(aiCall.searchQuery), aiCall.results)

\* The AI call fails: network error, timeout or a response without content.
AICallFails(http) == http.kind \in {"networkError", "timeout", "noContent"}

\* C3: filterMatches never raises; with no API key, and when the AI call
\* throws, it returns exactly fallbackFilter(query, results).
C3_FilterMatchesNeverRaises ==
    FilterReturned("filterMatches") =>
        /\ ~aiRet.raised
        /\ (aiCall.apiKey = "" \/ AICallFails(aiCall.http)) =>
              aiRet.value = fallbackFilter(aiCall.searchQuery, aiCall.results)

C3_Witness ==
    /\ FilterReturned("filterMatches")
    /\ aiCall.apiKey # ""
    /\ aiCall.http.kind = "timeout"
    /\ ~aiRet.raised
    /\ Len(aiRet.value) = 1
    /\ Len(aiCall.results) = 2

\* No comma-separated token of text parses to an index of results.
NoUsableIndex(text, results) ==
    LET tokens == split(text, ",")
    IN  \A t \in 1..Len(tokens) :
            LET p == parseInt(trim(tokens[t]))
            IN  p.nan \/ p.n < 0 \/ p.n >= Len(results)

MalformedAIText ==
    /\ FilterReturned("filterMatches")
    /\ aiCall.apiKey # ""
    /\ aiCall.http.kind = "content"
    /\ NoUsableIndex(aiCall.http.content, aiCall.results)

\* C4 as stated: with an API key, AI text in which no token is a valid index
\* makes filterMatches return fallbackFilter(query, results).
C4_MalformedFallsBack ==
    MalformedAIText =>
        aiRet.value = fallbackFilter(aiCall.searchQuery, aiCall.results)

\* C4 amended: with an API key, non-empty AI text in which no token parses to
\* an index of results makes filterMatches return the empty list, without
\* raising and without falling back to the keywords.
C4_MalformedGivesEmpty ==
    (MalformedAIText /\ aiCall.http.content # <<>>) =>
        /\ ~aiRet.raised
        /\ aiRet.value = <<>>

C4_Witness ==
    /\ MalformedAIText
    /\ aiCall.http.content = <<"x">>
    /\ aiRet.value = <<>>
    /\ fallbackFilter(aiCall.searchQuery, aiCall.results) # <<>>

\* A token that is an integer: after trimming, an optional minus sign and
\* then decimal digits only.
IsIntegerToken(token) ==
    LET t == trim(token)
        digits == IF t # <<>> /\ t[1] = "-" THEN Tail(t) ELSE t
    IN  digits # <<>> /\ \A i \in 1..Len(digits) : IsDigit(digits[i])

IntegerTokenValue(token) ==
    LET t == trim(token)
    IN  IF t[1] = "-" THEN 0 - DigitsValue(Tail(t)) ELSE DigitsValue(t)

\* C5: parseAIResponse accepts a token iff it is an integer in
\* [0, results.length): the result is results[i] for exactly those tokens i,
\* in token order; every other token is discarded.
C5_OnlyIntegerTokensAccepted ==
    FilterReturned("parseAIResponse") =>
        LET tokens == split(aiCall.http.content, ",")
            Accepted(token) ==
                /\ IsIntegerToken(token)
                /\ IntegerTokenValue(token) >= 0
                /\ IntegerTokenValue(token) < Len(aiCall.results)
            accepted == SelectSeq(tokens, Accepted)
        IN  /\ ~aiRet.raised
            /\ aiRet.value =
                  [j \in 1..Len(accepted) |-> aiCall.results[IntegerTokenValue(accepted[j]) + 1]]

\* The AI strategy returned: parseAIResponse itself, or filterMatches with an
\* API key and an AI call that gave content.
AIStrategyReturned ==
    \/ FilterReturned("parseAIResponse")
    \/ /\ FilterReturned("filterMatches")
       /\ aiCall.apiKey # ""
       /\ aiCall.http.kind = "content"
       /\ aiCall.http.content # <<>>

\* C6: the list the AI strategy returns is a subsequence of the input
\* listings: no listing twice, and in the order of the input.
C6_AIResultIsSubsequence ==
    AIStrategyReturned =>
        \E keep \in SUBSET (1..Len(aiCall.results)) :
            IsSelection(aiRet.value, aiCall.results, keep)

(***************************************************************************)
(* The aggregator and its searchers: searches through SearchService        *)
(* objects built with any platform settings, as time passes.               *)
(***************************************************************************)
StoredRateRecords ==
    {NothingStored, [present |-> TRUE, date |-> 0, count |-> DailyLimit]}

\* A SearchService built with any platform settings, its searchers possibly
\* replaced by ones that throw; the API key as the environment gives it.
InitSearch ==
    /\ FilterAtRest
    /\ ebayApiKey \in {"", "app-id"}
    /\ \E platformSettings \in PlatformSettingsInputs, failing \in SUBSET {EBAY, KLEINANZEIGEN} :
          /\ EBAY \in failing => SearchService_new(platformSettings).ebayEnabled
          /\ KLEINANZEIGEN \in failing => SearchService_new(platformSettings).kleinanzeigenEnabled
          /\ searchService = [platformSettings |-> SearchService_new(platformSettings),
                           failing |-> failing]
    /\ rateStored \in StoredRateRecords
    /\ SearchAtRest
    /\ OthersAtRest
    /\ StoreAtRest

SearchAllPlatforms ==
    \E input \in SearchInputs, upstream \in EbayOutcomes :
      \E r \in {searchAllPlatforms(searchService, input.query, input.maxPrice, upstream, ebayApiKey,
                                   searchCache, [data |-> rateData, stored |-> rateStored],
                                   idSeq, now)} :
            /\ r.seq <= MaxIdSeq
            /\ searchCall' = [query |-> input.query, maxPrice |-> input.maxPrice,
                              upstream |-> upstream.kind]
            /\ searchRet' = [done |-> TRUE, threw |-> r.threw, value |-> r.value,
                             ebay |-> r.ebay, kleinanzeigen |-> r.kleinanzeigen,
                             requested |-> r.requested]
            /\ searchCache' = r.cache
            /\ rateData' = r.data
            /\ rateStored' = r.stored
            /\ idSeq' = r.seq
            /\ UNCHANGED <<filterVars, ebayApiKey, searchService, now, storeVars, viewVars, otherVars>>

Tick ==
    /\ now < MaxTime
    /\ now' = now + 1
    /\ UNCHANGED <<filterVars, ebayApiKey, searchService, searchCache, rateData, rateStored,
                   idSeq, searchCall, searchRet, storeVars, viewVars, otherVars>>

NextSearch ==
    \/ SearchAllPlatforms
    \/ Tick

SpecSearch == InitSearch /\ [][NextSearch]_vars

(***************************************************************************)
(* The match store: the app is mounted, saved searches are run and the     *)
(* matches are toggled, marked read and cleared, as time passes.           *)
(***************************************************************************)
\* The saved searches: one is left (the matches stored earlier are of a search
\* with id 1).
SavedSearches == <<[id |-> 2, query |-> <<"a">>, maxPrice |-> 100]>>

\* The id addSearch gives the search it adds.
AddedSearchId == 3

\* The OpenRouter side of a run: no key (the keyword filter), or an answer.
RunAIOutcomes ==
    {[apiKey |-> "", http |-> NoHttp],
     [apiKey |-> "sk-key", http |-> [kind |-> "content", content |-> <<"0">>]],
     [apiKey |-> "sk-key", http |-> [kind |-> "content", content |-> <<"0", ",", "0">>]]}

\* The eBay side of a run: the request fails, or answers with one item.
RunEbayOutcomes ==
    {[kind |-> "timeout", items |-> <<>>],
     [kind |-> "items", items |-> <<[itemId |-> 1, title |-> <<"a">>, price |-> 90]>>]}

\* A match as an earlier version of the app stored it, with and without isRead.
StoredMatch(n, hasIsRead, isRead) ==
    [id |-> <<KLEINANZEIGEN, n, 0>>, title |-> <<"a">>, price |-> 90,
     platform |-> KLEINANZEIGEN, origin |-> "mock", searchId |-> 1, foundAt |-> 0,
     hasIsRead |-> hasIsRead, isRead |-> isRead]

StoredMatchCollections ==
    {NoStoredMatches,
     [present |-> TRUE, records |-> <<StoredMatch(0, FALSE, FALSE)>>],
     [present |-> TRUE, records |-> <<StoredMatch(0, TRUE, TRUE), StoredMatch(1, FALSE, FALSE)>>]}

AbsentMatchId == <<"none", 0, 0>>

MatchIds(ms) == {ms[i].id : i \in 1..Len(ms)}

InitStoreWith(typed) ==
    /\ FilterAtRest
    /\ ebayApiKey = "app-id"
    /\ searchService = [platformSettings |-> SearchService_new(NoPlatformSettings),
                        failing |-> {}]
    /\ rateStored = NothingStored
    /\ SearchAtRest
    /\ searches = <<>>
    /\ searchesStored = [present |-> TRUE, records |-> SavedSearches]
    /\ newSearchQuery = typed
    /\ SettingsAtRest
    /\ CacheAtRest
    /\ CallsAtRest
    /\ matches = <<>>
    /\ matchesStored \in StoredMatchCollections
    /\ matchesLoaded = FALSE
    /\ isLoading = FALSE
    /\ run = NoRun
    /\ storeOp = NoStoreOp
    /\ viewArgs = DefaultViewArgs
    /\ view = <<>>

\* The app before its mount effect has run, the add-search form empty.
InitStore == InitStoreWith(<<>>)

\* What a store handler leaves: the saved collection, the view memoized over
\* it, and the record of the handler.
StoreSaved(op, saved) ==
    /\ matches' = saved.matches
    /\ matchesStored' = saved.stored
    /\ view' = getFilteredAndSortedMatches(saved.matches, viewArgs).view
    /\ storeOp' = op

\* The mount effect's loadMatches.
LoadMatches ==
    /\ ~matchesLoaded
    /\ matchesLoaded' = TRUE
    /\ StoreSaved([NoStoreOp EXCEPT !.op = "loadMatches"],
                  [matches |-> loadMatches(matches, matchesStored), stored |-> matchesStored])
    /\ UNCHANGED <<filterVars, searchVars, isLoading, run, viewArgs, otherVars>>

\* runSearch started from a Run button that is not disabled while isLoading.
RunSearchStart_WhileLoading ==
    /\ matchesLoaded
    /\ \E i \in 1..Len(searches) :
          run' = [active |-> TRUE, searchId |-> searches[i].id, query |-> searches[i].query,
                  maxPrice |-> searches[i].maxPrice, matches |-> matches]
    /\ isLoading' = TRUE
    /\ UNCHANGED <<filterVars, searchVars, matches, matchesStored, matchesLoaded, storeOp,
                   viewVars, otherVars>>

\* runSearch up to its first await: the button is disabled while isLoading.
\* The lists are used once the mount effect has loaded them.
RunSearchStart ==
    /\ matchesLoaded
    /\ ~isLoading
    /\ \E i \in 1..Len(searches) :
          run' = [active |-> TRUE, searchId |-> searches[i].id, query |-> searches[i].query,
                  maxPrice |-> searches[i].maxPrice, matches |-> matches]
    /\ isLoading' = TRUE
    /\ UNCHANGED <<filterVars, searchVars, matches, matchesStored, matchesLoaded, storeOp,
                   viewVars, otherVars>>

\* The rest of runSearch: search, filter, append to the matches it closed
\* over, save, report. upstream and ai are what eBay and OpenRouter answer,
\* writeOk whether AsyncStorage.setItem resolves. aiService.hasValidApiKey
\* is not among the methods AIService.js defines: the call after
\* saveMatches either returns, and the alert is 'Success', or throws, and
\* the catch block alerts 'Error'.
RunSearchFinishWith(upstream, ai, writeOk) ==
    /\ run.active
    /\ \E r \in {searchAllPlatforms(searchService, run.query, run.maxPrice, upstream,
                                    ebayApiKey, searchCache,
                                    [data |-> rateData, stored |-> rateStored], idSeq, now)} :
         \E f \in {filterMatches(run.query, r.value, ai.apiKey, ai.http)} :
            /\ r.seq <= MaxIdSeq
            /\ Len(run.matches) + Len(f.value) <= MaxMatches
            /\ searchCache' = r.cache
            /\ rateData' = r.data
            /\ rateStored' = r.stored
            /\ idSeq' = r.seq
            /\ IF r.threw \/ f.raised
               THEN StoreSaved([NoStoreOp EXCEPT !.op = "runSearch", !.alert = "Error"],
                               [matches |-> matches, stored |-> matchesStored])
               ELSE \E alert \in {"Success", "Error"} :
                      StoreSaved([NoStoreOp EXCEPT !.op = "runSearch", !.matched = f.value,
                                                   !.writeOk = writeOk, !.alert = alert],
                                 saveMatches(appendMatches(run.matches, f.value, run.searchId,
                                                           now),
                                             matches, matchesStored, writeOk))
    /\ isLoading' = FALSE
    /\ run' = NoRun
    /\ UNCHANGED <<filterVars, ebayApiKey, searchService, now, searchCall, searchRet,
                   matchesLoaded, viewArgs, otherVars>>

RunSearchFinish ==
    \E upstream \in RunEbayOutcomes, ai \in RunAIOutcomes, writeOk \in BOOLEAN :
        RunSearchFinishWith(upstream, ai, writeOk)

ToggleMatchReadOf(matchId, writeOk) ==
    /\ matchesLoaded
    /\ StoreSaved([NoStoreOp EXCEPT !.op = "toggleMatchRead", !.writeOk = writeOk],
                  saveMatches(toggleMatchRead(matches, matchId), matches, matchesStored,
                              writeOk))
    /\ UNCHANGED <<filterVars, searchVars, matchesLoaded, isLoading, run, viewArgs, otherVars>>

ToggleMatchRead ==
    \E matchId \in MatchIds(matches) \cup {AbsentMatchId}, writeOk \in BOOLEAN :
        ToggleMatchReadOf(matchId, writeOk)

MarkAllAsReadWith(writeOk) ==
    /\ matchesLoaded
    /\ StoreSaved([NoStoreOp EXCEPT !.op = "markAllAsRead", !.writeOk = writeOk],
                  saveMatches(markAllAsRead(matches), matches, matchesStored, writeOk))
    /\ UNCHANGED <<filterVars, searchVars, matchesLoaded, isLoading, run, viewArgs, otherVars>>

MarkAllAsRead == \E writeOk \in BOOLEAN : MarkAllAsReadWith(writeOk)

\* clearAllMatches with the alert's Clear pressed.
ClearAllMatchesWith(writeOk) ==
    /\ matchesLoaded
    /\ StoreSaved([NoStoreOp EXCEPT !.op = "clearAllMatches", !.writeOk = writeOk],
                  saveMatches(<<>>, matches, matchesStored, writeOk))
    /\ UNCHANGED <<filterVars, searchVars, matchesLoaded, isLoading, run, viewArgs, otherVars>>

ClearAllMatches == \E writeOk \in BOOLEAN : ClearAllMatchesWith(writeOk)

\* The mount effect's loadSearches.
LoadSearches ==
    /\ searches # loadSearches(searches, searchesStored)
    /\ searches' = loadSearches(searches, searchesStored)
    /\ UNCHANGED <<filterVars, searchVars, storeVars, viewVars, searchesStored, newSearchQuery,
                   settingsVars, cacheVars, callVars>>

\* What a handler of the search list leaves.
SearchesSaved(op, saved) ==
    /\ searches' = saved.searches
    /\ searchesStored' = saved.stored
    /\ storeOp' = op
    /\ UNCHANGED <<filterVars, searchVars, matches, matchesStored, matchesLoaded, isLoading,
                   run, viewVars, settingsVars, cacheVars, callVars>>

\* addSearch: a blank query is refused with an alert; else the new search is
\* put behind the others, saved, and the form is emptied.
AddSearchWith(writeOk) ==
    IF trim(newSearchQuery) = <<>>
    THEN /\ storeOp' = [NoStoreOp EXCEPT !.op = "addSearch", !.alert = "Error"]
         /\ UNCHANGED <<filterVars, searchVars, matches, matchesStored, matchesLoaded,
                        isLoading, run, viewVars, searchListVars, settingsVars, cacheVars,
                        callVars>>
    ELSE /\ SearchesSaved([NoStoreOp EXCEPT !.op = "addSearch", !.writeOk = writeOk],
                          saveSearches(Append(searches, newSearch(AddedSearchId, newSearchQuery)),
                                       searches, searchesStored, writeOk))
         /\ newSearchQuery' = <<>>

AddSearch == \E writeOk \in BOOLEAN : AddSearchWith(writeOk)

DeleteSearchOf(searchId, writeOk) ==
    /\ SearchesSaved([NoStoreOp EXCEPT !.op = "deleteSearch", !.writeOk = writeOk],
                     saveSearches(deleteSearch(searches, searchId), searches, searchesStored,
                                  writeOk))
    /\ UNCHANGED newSearchQuery

DeleteSearch ==
    \E i \in 1..Len(searches), writeOk \in BOOLEAN : DeleteSearchOf(searches[i].id, writeOk)

\* The store is followed at one reading of the clock.
NextStore ==
    \/ LoadSearches
    \/ LoadMatches
    \/ RunSearchStart
    \/ RunSearchFinish
    \/ ToggleMatchRead
    \/ MarkAllAsRead
    \/ ClearAllMatches

SpecStore == InitStore /\ [][NextStore]_vars

(***************************************************************************)
(* The life of a match: the store with the handlers of the search list,    *)
(* a query typed into the add-search form, and eBay out of reach.          *)
(***************************************************************************)
InitLifecycle == InitStoreWith(<<"a">>)

RunSearchFinishEbayDown ==
    \E upstream \in {o \in RunEbayOutcomes : o.kind = "timeout"}, ai \in RunAIOutcomes,
       writeOk \in BOOLEAN :
        RunSearchFinishWith(upstream, ai, writeOk)

NextLifecycle ==
    \/ LoadSearches
    \/ AddSearch
    \/ DeleteSearch
    \/ LoadMatches
    \/ RunSearchStart
    \/ RunSearchFinishEbayDown
    \/ ToggleMatchRead
    \/ MarkAllAsRead
    \/ ClearAllMatches

SpecLifecycle == InitLifecycle /\ [][NextLifecycle]_vars

(***************************************************************************)
(* SettingsService (src/src/services/SettingsService.js): the settings     *)
(* item in AsyncStorage and the API key item in SecureStore. A JSON object *)
(* is a function from its field names.                                     *)
(***************************************************************************)
\* { ...a, ...b }
Spread(a, b) == [f \in DOMAIN a \cup DOMAIN b |-> IF f \in DOMAIN b THEN b[f] ELSE a[f]]

Item(value) == [present |-> TRUE, value |-> value]

\* saveSettings: the settings without the key go to AsyncStorage; then the
\* key goes to SecureStore, or is deleted there if it is empty. plainOk and
\* secureOk say whether the AsyncStorage and the SecureStore call resolve;
\* a deletion that rejects is logged and ignored.
saveSettings(settings, plainOk, secureOk, stored, secure) ==
    IF ~plainOk THEN [returned |-> FALSE, stored |-> stored, secure |-> secure]
    ELSE IF settings.openrouterApiKey # ""
    THEN IF secureOk
         THEN [returned |-> TRUE, stored |-> Item(Rest(settings, "openrouterApiKey")),
               secure |-> Item(settings.openrouterApiKey)]
         ELSE [returned |-> FALSE, stored |-> Item(Rest(settings, "openrouterApiKey")),
               secure |-> secure]
    ELSE [returned |-> TRUE, stored |-> Item(Rest(settings, "openrouterApiKey")),
          secure |-> IF secureOk THEN NoSecureItem ELSE secure]

\* loadSettings: the defaults overlaid with the stored settings, the key
\* taken from SecureStore; the defaults if AsyncStorage rejects, an empty
\* key if SecureStore rejects.
loadSettings(stored, secure, plainOk, secureOk) ==
    IF ~plainOk THEN DEFAULT_SETTINGS
    ELSE [(IF stored.present THEN Spread(DEFAULT_SETTINGS, stored.value)
           ELSE DEFAULT_SETTINGS)
            EXCEPT !.openrouterApiKey =
                IF secureOk /\ secure.present THEN secure.value ELSE ""]

\* The settings the settings screen hands to saveSettings.
OpenRouterKeys == {"", "sk-1", "sk-2"}
SettingsInputs ==
    [openrouterApiKey : OpenRouterKeys, ebayEnabled : BOOLEAN, kleinanzeigenEnabled : BOOLEAN]

InitSettings ==
    /\ FilterAtRest
    /\ ebayApiKey = ""
    /\ searchService = [platformSettings |-> SearchService_new(NoPlatformSettings),
                        failing |-> {}]
    /\ rateStored = NothingStored
    /\ SearchAtRest
    /\ StoreAtRest
    /\ OthersAtRest

SaveSettingsWith(settings, plainOk, secureOk) ==
    /\ \E r \in {saveSettings(settings, plainOk, secureOk, settingsStored, secureStored)} :
          /\ settingsStored' = r.stored
          /\ secureStored' = r.secure
          /\ settingsOp' = [NoSettingsOp EXCEPT !.op = "saveSettings",
                                                !.settings = settings, !.ok = r.returned]
    /\ UNCHANGED <<filterVars, searchVars, storeVars, viewVars, searchListVars, cacheVars,
                   callVars>>

SaveSettings ==
    \E settings \in SettingsInputs, plainOk \in BOOLEAN, secureOk \in BOOLEAN :
        SaveSettingsWith(settings, plainOk, secureOk)

LoadSettings ==
    /\ \E plainOk \in BOOLEAN, secureOk \in BOOLEAN :
          settingsOp' = [NoSettingsOp EXCEPT
                            !.op = "loadSettings",
                            !.loaded = loadSettings(settingsStored, secureStored, plainOk,
                                                    secureOk)]
    /\ UNCHANGED <<filterVars, searchVars, storeVars, viewVars, searchListVars, cacheVars,
                   callVars, settingsStored, secureStored>>

NextSettings ==
    \/ SaveSettings
    \/ LoadSettings

SpecSettings == InitSettings /\ [][NextSettings]_vars

(***************************************************************************)
(* The match view on its own: a loaded collection, the filter and sort     *)
(* controls, and the memo that is computed on each render.                 *)
(***************************************************************************)
ViewMatch(n, platform, title, price, foundAt, isRead) ==
    [id |-> <<platform, n, 0>>, title |-> title, price |-> price, platform |-> platform,
     origin |-> "api", searchId |-> 1, foundAt |-> foundAt, hasIsRead |-> TRUE,
     isRead |-> isRead]

\* Matches of both platforms, read and unread, with prices and dates that
\* tie and titles that differ in case.
ViewMatchPool ==
    {ViewMatch(1, EBAY, <<"a">>, 20, 1, FALSE),
     ViewMatch(2, KLEINANZEIGEN, <<"B">>, 10, 2, TRUE),
     ViewMatch(3, EBAY, <<"A", " ", "b">>, 10, 1, FALSE),
     ViewMatch(4, KLEINANZEIGEN, <<"b", "a">>, 30, 0, FALSE)}

ViewMatchCollections ==
    {ms \in UNION {[1..n -> ViewMatchPool] : n \in 0..MaxViewMatches} :
        \A i, j \in 1..Len(ms) : i # j => ms[i] # ms[j]}

InitView ==
    /\ FilterAtRest
    /\ ebayApiKey = ""
    /\ searchService = [platformSettings |-> SearchService_new(NoPlatformSettings),
                        failing |-> {}]
    /\ rateStored = NothingStored
    /\ SearchAtRest
    /\ OthersAtRest
    /\ matches \in ViewMatchCollections
    /\ matchesStored = [present |-> TRUE, records |-> matches]
    /\ matchesLoaded = TRUE
    /\ isLoading = FALSE
    /\ run = NoRun
    /\ storeOp = NoStoreOp
    /\ viewArgs = DefaultViewArgs
    /\ view = <<>>

\* A render: the memo runs over the matches state and the four controls.
Rendered(op, args) ==
    /\ viewArgs' = args
    /\ \E r \in {getFilteredAndSortedMatches(matches, args)} :
          /\ view' = r.view
          /\ matches' = r.matches
    /\ storeOp' = [NoStoreOp EXCEPT !.op = op]
    /\ UNCHANGED <<filterVars, searchVars, matchesStored, matchesLoaded, isLoading, run, otherVars>>

ComputeView == Rendered("render", viewArgs)

\* The setters of the four controls, each followed by the render it causes.
SetMatchFilter ==
    \E text \in MatchFilterTexts :
        Rendered("setMatchFilter", [viewArgs EXCEPT !.matchFilter = text])

SetPlatformFilter ==
    \E platform \in PlatformFilters :
        Rendered("setPlatformFilter", [viewArgs EXCEPT !.platformFilter = platform])

SetReadFilter ==
    \E status \in ReadFilters :
        Rendered("setReadFilter", [viewArgs EXCEPT !.readFilter = status])

SetMatchSort ==
    \E key \in MatchSorts :
        Rendered("setMatchSort", [viewArgs EXCEPT !.matchSort = key])

NextView ==
    \/ ComputeView
    \/ SetMatchFilter
    \/ SetPlatformFilter
    \/ SetReadFilter
    \/ SetMatchSort

SpecView == InitView /\ [][NextView]_vars

(***************************************************************************)
(* A Cache on its own: set, get, has and clear on a cache of MaxCacheSize   *)
(* entries, as time passes.                                                *)
(***************************************************************************)
CacheKeys == 1..(MaxCacheSize + 1)
CacheValues == {<<1>>, <<2>>}
CacheTTLs == {SEARCH_RESULTS_TTL}

InitCache ==
    /\ FilterAtRest
    /\ ebayApiKey = ""
    /\ searchService = [platformSettings |-> SearchService_new(NoPlatformSettings),
                        failing |-> {}]
    /\ rateStored = NothingStored
    /\ SearchAtRest
    /\ StoreAtRest
    /\ OthersAtRest

CacheUnchanged ==
    UNCHANGED <<filterVars, ebayApiKey, searchService, rateData, rateStored, idSeq, searchCall,
                searchRet, storeVars, viewVars, searchListVars, settingsVars, callVars>>

CacheSet ==
    /\ \E key \in CacheKeys, value \in CacheValues, ttl \in CacheTTLs :
          /\ searchCache' = Cache_set(searchCache, key, value, ttl, now)
          /\ cacheOp' = [NoCacheOp EXCEPT !.op = "set", !.key = key, !.value = value]
    /\ UNCHANGED now
    /\ CacheUnchanged

CacheGet ==
    /\ \E key \in CacheKeys :
          LET got == Cache_get(searchCache, key, now)
          IN  /\ searchCache' = got.cache
              /\ cacheOp' = [NoCacheOp EXCEPT !.op = "get", !.key = key, !.hit = got.found,
                                              !.value = got.value,
                                              !.expired = got.cache # searchCache]
    /\ UNCHANGED now
    /\ CacheUnchanged

\* has: get(key) !== undefined
CacheHas ==
    /\ \E key \in CacheKeys :
          LET got == Cache_get(searchCache, key, now)
          IN  /\ searchCache' = got.cache
              /\ cacheOp' = [NoCacheOp EXCEPT !.op = "has", !.key = key, !.hit = got.found,
                                              !.expired = got.cache # searchCache]
    /\ UNCHANGED now
    /\ CacheUnchanged

CacheClear ==
    /\ searchCache' = <<>>
    /\ cacheOp' = [NoCacheOp EXCEPT !.op = "clear"]
    /\ UNCHANGED now
    /\ CacheUnchanged

CacheTick ==
    /\ now < MaxTime
    /\ now' = now + 1
    /\ UNCHANGED <<searchCache, cacheOp>>
    /\ CacheUnchanged

NextCache ==
    \/ CacheSet
    \/ CacheGet
    \/ CacheHas
    \/ CacheClear
    \/ CacheTick

SpecCache == InitCache /\ [][NextCache]_vars

(***************************************************************************)
(* Concurrent calls of EbaySearcher.search within one day: each call runs  *)
(* from one await to the next, and the calls interleave at their awaits.   *)
(***************************************************************************)
\* The searches called for: two queries, none of them blank.
CallKeys == {cacheKey(<<"a">>, NoMaxPrice), cacheKey(<<"a">>, 100)}

\* A call is awaiting checkLimit ("check"), awaiting axios.get ("request") or
\* has returned ("done").
Call(key, pc) == [key |-> key, pc |-> pc]

InitCalls ==
    /\ FilterAtRest
    /\ ebayApiKey = "app-id"
    /\ searchService = [platformSettings |-> SearchService_new(NoPlatformSettings),
                        failing |-> {}]
    /\ rateStored \in StoredRateRecords
    /\ SearchAtRest
    /\ StoreAtRest
    /\ OthersAtRest

CallsUnchanged ==
    UNCHANGED <<filterVars, ebayApiKey, searchService, now, idSeq, searchCall, searchRet,
                storeVars, viewVars, searchListVars, settingsVars, cacheVars>>

\* search up to its first await: a cached result is returned at once,
\* otherwise the call awaits checkLimit.
CallStart ==
    /\ Len(ebayCalls) < MaxCalls
    /\ \E key \in CallKeys :
          LET cached == Cache_get(searchCache, key, now)
          IN  /\ searchCache' = cached.cache
              /\ ebayCalls' = Append(ebayCalls,
                                     Call(key, IF cached.found THEN "done" ELSE "check"))
    /\ UNCHANGED <<rateData, rateStored, httpRequests>>
    /\ CallsUnchanged

\* checkLimit resolves: a refused call returns [], an allowed one goes on into
\* searchWithAPI and sends its request.
CallCheckLimit ==
    /\ \E i \in 1..Len(ebayCalls) :
          /\ ebayCalls[i].pc = "check"
          /\ LET limitCheck == checkLimit(rateData, rateStored, now)
             IN  /\ rateData' = limitCheck.data
                 /\ rateStored' = limitCheck.stored
                 /\ IF limitCheck.canProceed
                    THEN /\ ebayCalls' = [ebayCalls EXCEPT ![i].pc = "request"]
                         /\ httpRequests' = httpRequests + 1
                    ELSE /\ ebayCalls' = [ebayCalls EXCEPT ![i].pc = "done"]
                         /\ UNCHANGED httpRequests
    /\ UNCHANGED searchCache
    /\ CallsUnchanged

\* axios.get resolves: the count is incremented, the results are cached.
CallResolve ==
    /\ \E i \in 1..Len(ebayCalls), upstream \in {u \in EbayOutcomes : u.kind = "items"} :
          /\ ebayCalls[i].pc = "request"
          /\ LET limiter == incrementCount(rateData, rateStored, now)
             IN  /\ rateData' = limiter.data
                 /\ rateStored' = limiter.stored
          /\ searchCache' = Cache_set(searchCache, ebayCalls[i].key,
                                      parseAPIResponse(upstream, 0), SEARCH_RESULTS_TTL, now)
          /\ ebayCalls' = [ebayCalls EXCEPT ![i].pc = "done"]
    /\ UNCHANGED httpRequests
    /\ CallsUnchanged

\* axios.get rejects: the catch block of search returns [].
CallReject ==
    /\ \E i \in 1..Len(ebayCalls) :
          /\ ebayCalls[i].pc = "request"
          /\ ebayCalls' = [ebayCalls EXCEPT ![i].pc = "done"]
    /\ UNCHANGED <<searchCache, rateData, rateStored, httpRequests>>
    /\ CallsUnchanged

NextCalls ==
    \/ CallStart
    \/ CallCheckLimit
    \/ CallResolve
    \/ CallReject

SpecCalls == InitCalls /\ [][NextCalls]_vars

(***************************************************************************)
(* Properties of the search (checked under SpecSearch).                    *)
(***************************************************************************)
Enabled(platform) ==
    IF platform = EBAY THEN searchService.platformSettings.ebayEnabled
    ELSE searchService.platformSettings.kleinanzeigenEnabled

\* The listings of a sequence are all of one platform.
AllOfPlatform(listings, platform) ==
    \A i \in 1..Len(listings) : listings[i].platform = platform

\* C7: in searchAllPlatforms, if one enabled platform's searcher throws and
\* the other succeeds, the call does not throw and returns exactly the
\* successful platform's listings; if both throw it returns an empty list;
\* whichever of the two platforms fails.
C7_PartialFailureTolerated ==
    searchRet.done =>
        /\ ~searchRet.threw
        /\ (searchRet.ebay.threw /\ searchRet.kleinanzeigen.invoked
                /\ ~searchRet.kleinanzeigen.threw) =>
              /\ searchRet.value = searchRet.kleinanzeigen.value
              /\ AllOfPlatform(searchRet.value, KLEINANZEIGEN)
        /\ (searchRet.kleinanzeigen.threw /\ searchRet.ebay.invoked
                /\ ~searchRet.ebay.threw) =>
              /\ searchRet.value = searchRet.ebay.value
              /\ AllOfPlatform(searchRet.value, EBAY)
        /\ (searchRet.ebay.threw /\ searchRet.kleinanzeigen.threw) => searchRet.value = <<>>

C7_Witness ==
    /\ searchRet.done
    /\ searchRet.kleinanzeigen.threw
    /\ searchRet.ebay.invoked
    /\ ~searchRet.ebay.threw
    /\ Len(searchRet.value) = 1
    /\ searchRet.value[1].platform = EBAY

\* C8: searchAllPlatforms invokes a platform's searcher if and only if that
\* platform is enabled in platformSettings: every returned listing belongs
\* to an enabled platform, and with both platforms disabled it returns an
\* empty list without invoking any searcher.
C8_OnlyEnabledPlatformsSearched ==
    searchRet.done =>
        /\ searchRet.ebay.invoked <=> Enabled(EBAY)
        /\ searchRet.kleinanzeigen.invoked <=> Enabled(KLEINANZEIGEN)
        /\ \A i \in 1..Len(searchRet.value) : Enabled(searchRet.value[i].platform)
        /\ (~Enabled(EBAY) /\ ~Enabled(KLEINANZEIGEN)) =>
              /\ searchRet.value = <<>>
              /\ ~searchRet.ebay.invoked
              /\ ~searchRet.kleinanzeigen.invoked
              /\ ~searchRet.requested

C8_Witness ==
    /\ searchRet.done
    /\ ~Enabled(EBAY)
    /\ Enabled(KLEINANZEIGEN)
    /\ ~searchRet.ebay.invoked
    /\ searchRet.kleinanzeigen.invoked
    /\ Len(searchRet.value) = 3
    /\ AllOfPlatform(searchRet.value, KLEINANZEIGEN)

WithinCap(listings, p) == \A i \in 1..Len(listings) : listings[i].price <= p

\* C9: for every searcher (eBay and Kleinanzeigen) and every positive
\* maxPrice p, every listing returned by search(query, p) satisfies
\* price <= p, whatever the upstream marketplace response contains.
C9_MaxPriceRespected ==
    (searchRet.done /\ searchCall.maxPrice > 0) =>
        /\ WithinCap(searchRet.ebay.value, searchCall.maxPrice)
        /\ WithinCap(searchRet.kleinanzeigen.value, searchCall.maxPrice)

\* EbaySearcher.search itself ran in the last call.
EbaySearchRan == searchRet.done /\ searchRet.ebay.invoked /\ EBAY \notin searchService.failing

\* The API call of the last search failed: network error, timeout or a
\* response that cannot be parsed.
EbayApiCallFailed ==
    searchRet.requested /\ searchCall.upstream \in {"networkError", "timeout", "malformed"}

DefaultSearchReturned ==
    /\ searchRet.done
    /\ Enabled(EBAY) /\ Enabled(KLEINANZEIGEN)
    /\ searchService.failing = {}
    /\ trim(searchCall.query) # <<>>

HasListingOf(listings, platform) ==
    \E i \in 1..Len(listings) : listings[i].platform = platform

UniqueIds(ms) == \A i, j \in 1..Len(ms) : ms[i].id = ms[j].id => i = j

\* C12: in every reachable state of the match store, after any sequence of
\* runSearch (the same saved search run repeatedly, results from the cache or
\* fetched anew), toggleMatchRead, markAllAsRead and clearAllMatches, no two
\* matches of the persisted collection have the same id.
C12_MatchIdsUnique ==
    /\ UniqueIds(matches)
    /\ UniqueIds(matchesStored.records)

\* The appended matches are the listings of matched, one match for each and
\* in their order, unread, of the search run and found now.
AppendedFor(appended, matched, searchId, t) ==
    /\ Len(appended) = Len(matched)
    /\ \A j \in 1..Len(matched) :
          /\ appended[j].id = matched[j].id
          /\ appended[j].title = matched[j].title
          /\ appended[j].price = matched[j].price
          /\ appended[j].platform = matched[j].platform
          /\ appended[j].hasIsRead /\ ~appended[j].isRead
          /\ appended[j].searchId = searchId
          /\ appended[j].foundAt = t

\* C13: after runSearch(search) completes successfully with no other store
\* operation interleaved, the collection is the previous collection followed
\* by one match per filtered listing: each filtered listing appears exactly
\* once among the appended matches, with isRead = false, searchId = search.id
\* and foundAt set, and every match stored before is still there, unchanged.
C13_RunAppendsEachListingOnce ==
    [][\A upstream \in RunEbayOutcomes, ai \in RunAIOutcomes :
        (RunSearchFinishWith(upstream, ai, TRUE) /\ run.matches = matches) =>
            LET appended == SubSeq(matches', Len(matches) + 1, Len(matches'))
            IN  /\ Len(matches') >= Len(matches)
                /\ SubSeq(matches', 1, Len(matches)) = matches
                /\ AppendedFor(appended, storeOp'.matched, run.searchId, now)
                /\ UniqueIds(appended)
                /\ matchesStored'.records = matches']_vars

\* m with isRead set to b and every other field as it is.
WithIsRead(m, b) == [m EXCEPT !.isRead = b]

C15_ToggleTwiceRestores ==
    [][\A matchId \in MatchIds(matches) \cup {AbsentMatchId} :
        ToggleMatchReadOf(matchId, TRUE) =>
            /\ matchesStored'.records = matches'
            /\ saveMatches(toggleMatchRead(matches', matchId), matches', matchesStored',
                           TRUE).matches = matches
            /\ saveMatches(toggleMatchRead(matches', matchId), matches', matchesStored',
                           TRUE).stored.records = matches]_vars

\* A toggle has been saved and toggling any of the matches again changes
\* the collection.
C15_Witness ==
    /\ storeOp.op = "toggleMatchRead"
    /\ storeOp.writeOk
    /\ Len(matches) = 2
    /\ matchesStored.records = matches
    /\ \E i \in 1..Len(matches) : matches[i].isRead
    /\ \A i \in 1..Len(matches) : toggleMatchRead(matches, matches[i].id) # matches

\* The positions at which two collections of the same length differ.
ChangedAt(before, after) == {i \in 1..Len(before) : after[i] # before[i]}

\* C16: toggleMatchRead(id) flips isRead of exactly one match, the one with
\* that id, and leaves every other match and every other field as it was;
\* with an id no match has, the collection is unchanged.
C16_ToggleFlipsExactlyOne ==
    [][\A matchId \in MatchIds(matches) \cup {AbsentMatchId} :
        ToggleMatchReadOf(matchId, TRUE) =>
            /\ Len(matches') = Len(matches)
            /\ Cardinality(ChangedAt(matches, matches')) =
                  (IF matchId \in MatchIds(matches) THEN 1 ELSE 0)
            /\ \A i \in ChangedAt(matches, matches') :
                  /\ matches[i].id = matchId
                  /\ matches'[i] = WithIsRead(matches[i], ~matches[i].isRead)]_vars

\* r with its isRead taken out of the comparison.
WithoutIsRead(r) == [r EXCEPT !.hasIsRead = TRUE, !.isRead = FALSE]

\* C19: loadMatches gives every persisted record that lacks an isRead field
\* isRead = false, keeps the isRead of every record that has one, keeps all
\* other fields and the order of the records, and does not fail: the
\* loaded collection is set, record by record, and nothing is written.
C19_LoadMigratesIsRead ==
    [][(LoadMatches /\ matchesStored.present) =>
        /\ Len(matches') = Len(matchesStored.records)
        /\ \A i \in 1..Len(matchesStored.records) :
              /\ matches'[i].hasIsRead
              /\ matches'[i].isRead =
                    (IF matchesStored.records[i].hasIsRead
                     THEN matchesStored.records[i].isRead ELSE FALSE)
              /\ WithoutIsRead(matches'[i]) = WithoutIsRead(matchesStored.records[i])
        /\ matchesLoaded'
        /\ matchesStored' = matchesStored]_vars

C19_Witness ==
    /\ storeOp.op = "loadMatches"
    /\ Len(matches) = 2
    /\ matchesStored.records[1].hasIsRead /\ matches[1].isRead
    /\ ~matchesStored.records[2].hasIsRead /\ ~matches[2].isRead

\* C20: when the write of the match collection fails during a run, the run
\* is not reported as a success and the newly filtered matches are still in
\* memory, at the end of the collection, for the write to be tried again.
C20_WriteFailureSurfacedAndMatchesKept ==
    (storeOp.op = "runSearch" /\ ~storeOp.writeOk /\ storeOp.matched # <<>>) =>
        /\ storeOp.alert # "Success"
        /\ Len(matches) >= Len(storeOp.matched)
        /\ \A i \in 1..Len(storeOp.matched) :
              /\ matches[Len(matches) - Len(storeOp.matched) + i].id =
                    storeOp.matched[i].id
              /\ ~matches[Len(matches) - Len(storeOp.matched) + i].isRead

OfPlatformAndStatus(m, args) ==
    /\ args.platformFilter = "all" \/ m.platform = args.platformFilter
    /\ \/ args.readFilter = "all"
       \/ args.readFilter = "unread" /\ ~m.isRead
       \/ args.readFilter = "read" /\ m.isRead

ContainsText(m, text) == includes(toLowerCase(m.title), toLowerCase(text))

\* a may stand before b under the sort key.
InOrder(a, b, matchSort) ==
    CASE matchSort = "date-asc" -> a.foundAt <= b.foundAt
      [] matchSort = "date-desc" -> a.foundAt >= b.foundAt
      [] matchSort = "price-asc" -> a.price <= b.price
      [] matchSort = "price-desc" -> a.price >= b.price
      [] matchSort = "title-asc" -> localeCompare(a.title, b.title) <= 0

\* v holds each of the matches in wanted once and nothing else, in the
\* order of the sort key.
IsViewOf(v, wanted, matchSort) ==
    /\ {v[i] : i \in 1..Len(v)} = wanted
    /\ Len(v) = Cardinality(wanted)
    /\ \A i, j \in 1..Len(v) : i < j => InOrder(v[i], v[j], matchSort)

\* C18 as stated: the view holds exactly the stored matches that satisfy
\* all active filters (platform, read status, title containing the filter
\* text without regard to case; 'all' or the empty text restricts nothing),
\* ordered by the selected sort key.
C18_ViewIsFilteredAndSorted ==
    storeOp.op # "none" =>
        IsViewOf(view,
                 {matches[i] : i \in {k \in 1..Len(matches) :
                     /\ OfPlatformAndStatus(matches[k], viewArgs)
                     /\ \/ viewArgs.matchFilter = <<>>
                        \/ ContainsText(matches[k], viewArgs.matchFilter)}},
                 viewArgs.matchSort)

\* C18, amended: the same, where a filter text that is empty or consists of
\* white space restricts nothing, and any other text is looked for as it
\* was typed, spaces included.
C18_ViewIsFilteredAndSortedBlankTextFree ==
    storeOp.op # "none" =>
        IsViewOf(view,
                 {matches[i] : i \in {k \in 1..Len(matches) :
                     /\ OfPlatformAndStatus(matches[k], viewArgs)
                     /\ \/ trim(viewArgs.matchFilter) = <<>>
                        \/ ContainsText(matches[k], viewArgs.matchFilter)}},
                 viewArgs.matchSort)

\* All three filters are active, one of three matches is filtered out and
\* the other two are shown in an order that is not the stored one.
C18_Witness ==
    /\ storeOp.op # "none"
    /\ viewArgs.platformFilter # "all"
    /\ viewArgs.readFilter # "all"
    /\ trim(viewArgs.matchFilter) # <<>>
    /\ Len(matches) = 3
    /\ Len(view) = 2
    /\ \E i, j \in 1..Len(matches) : i < j /\ view[1] = matches[j] /\ view[2] = matches[i]

(***************************************************************************)
(* Properties of the life of a match (checked under SpecLifecycle).        *)
(***************************************************************************)
\* How many matches of ms have the id.
CountOf(ms, id) == Cardinality({i \in 1..Len(ms) : ms[i].id = id})

\* Every match of before is in after, as often as it was.
AllKept(before, after) ==
    \A id \in MatchIds(before) : CountOf(after, id) >= CountOf(before, id)

C22_OneRunInFlight ==
    [][/\ RunSearchStart => (~isLoading /\ ~run.active /\ isLoading' /\ run'.active)
       /\ (run.active /\ ~run'.active) => (isLoading /\ ~isLoading' /\ run' = NoRun)
       /\ isLoading' = run'.active]_vars

\* A run that saved its matches and then threw has ended: isLoading is
\* false and the Run buttons are enabled again.
C22_Witness ==
    /\ storeOp.op = "runSearch"
    /\ storeOp.alert = "Error"
    /\ storeOp.matched # <<>>
    /\ ~isLoading
    /\ ~run.active
    /\ ENABLED RunSearchStart

\* C30: a store operation that completed while a run was in flight is not
\* lost when the run saves: the collection after the run is the collection
\* as it was just before the save, followed by the run's new matches.
C30_RunKeepsWhatHappenedMeanwhile ==
    [][\A upstream \in RunEbayOutcomes, ai \in RunAIOutcomes :
        RunSearchFinishWith(upstream, ai, TRUE) =>
            /\ Len(matches') = Len(matches) + Len(storeOp'.matched)
            /\ SubSeq(matches', 1, Len(matches)) = matches]_vars

(***************************************************************************)
(* Properties of the settings (checked under SpecSettings).                *)
(***************************************************************************)
\* C23: the settings item in AsyncStorage never holds the OpenRouter API
\* key, and after a saveSettings(s) that returned true the key in
\* SecureStore is that of s (none if it is empty) and loadSettings, its
\* reads succeeding, returns s.
C23_KeyOnlyInSecureStoreAndSavedIsLoaded ==
    [][\A settings \in SettingsInputs, secureOk \in BOOLEAN :
        (SaveSettingsWith(settings, TRUE, secureOk) /\ settingsOp'.ok) =>
            /\ "openrouterApiKey" \notin DOMAIN settingsStored'.value
            /\ secureStored'.present = (settings.openrouterApiKey # "")
            /\ loadSettings(settingsStored', secureStored', TRUE, TRUE) = settings]_vars

(***************************************************************************)
(* Properties of the rate limit and the search cache (checked under        *)
(* SpecSearch).                                                            *)
(***************************************************************************)
\* The eBay searcher of the search just made came to its rate limit check: the
\* platform is enabled, its searcher is the real one, an API key is set and
\* the cache had no live entry for the search.
ReachesLimitCheck ==
    /\ now' = now
    /\ searchService.platformSettings.ebayEnabled
    /\ EBAY \notin searchService.failing
    /\ ebayApiKey # ""
    /\ ~Cache_get(searchCache, cacheKey(searchCall'.query, searchCall'.maxPrice), now).found

\* The count the limiter holds once it has loaded its data.
CountAt(data, stored, t) ==
    IF data.loaded THEN data.count
    ELSE IF stored.present /\ stored.date = Today(t) THEN stored.count
    ELSE 0

\* C24: checkLimit returns canProceed = false, with level 'error' and
\* remaining 0, exactly when the limiter's count is >= the daily limit, and
\* canProceed = true otherwise; a search refused by it returns the empty list,
\* issues no HTTP request and leaves the count as it is.
C24_LimitReachedStopsSearch ==
    [][ReachesLimitCheck =>
        LET limitCheck == checkLimit(rateData, rateStored, now)
            reached == CountAt(rateData, rateStored, now) >= DailyLimit
        IN  /\ limitCheck.canProceed = ~reached
            /\ (limitCheck.level = "error") = reached
            /\ reached => limitCheck.remaining = 0
            /\ reached =>
                  /\ searchRet'.ebay.invoked
                  /\ ~searchRet'.ebay.threw
                  /\ searchRet'.ebay.value = <<>>
                  /\ ~searchRet'.requested
                  /\ rateData'.count = CountAt(rateData, rateStored, now)
                  /\ rateStored'.count = CountAt(rateData, rateStored, now)]_vars

\* A search with a key and a query was refused at the limit: nothing cached
\* for it, nothing requested.
C24_Witness ==
    /\ searchRet.done
    /\ searchRet.ebay.invoked
    /\ searchRet.ebay.value = <<>>
    /\ ~searchRet.requested
    /\ ebayApiKey # ""
    /\ trim(searchCall.query) # <<>>
    /\ CachePositions(searchCache, cacheKey(searchCall.query, searchCall.maxPrice)) = {}
    /\ rateData.loaded
    /\ rateData.count >= DailyLimit

\* C25: the daily count resets when the day changes, also within one running
\* session: the limit check of a search decides on a count of the current
\* calendar day, so a limiter that reached the limit on one day allows calls
\* again on the next.
C25_CountIsOfToday ==
    [][ReachesLimitCheck =>
        LET limitCheck == checkLimit(rateData, rateStored, now)
        IN  /\ limitCheck.data.date = Today(now)
            /\ (rateData.loaded /\ rateData.date # Today(now)) => limitCheck.canProceed]_vars

\* The search just made called the real eBay searcher.
EbaySearcherCalled ==
    /\ now' = now
    /\ searchService.platformSettings.ebayEnabled
    /\ EBAY \notin searchService.failing

\* The entry the cache holds for the search just made, if it holds one.
EntriesOfSearch ==
    {searchCache[i] :
        i \in CachePositions(searchCache, cacheKey(searchCall'.query, searchCall'.maxPrice))}

\* The search just made was answered with the entry's value, without a request
\* and without a change to the limiter.
ServedFromCache(entry) ==
    /\ searchRet'.ebay.value = entry.value
    /\ ~searchRet'.requested
    /\ rateData' = rateData
    /\ rateStored' = rateStored

KeysOf(cache) == {cache[i].key : i \in 1..Len(cache)}

EntryOf(cache, key) == cache[CHOOSE i \in CachePositions(cache, key) : TRUE]

\* The step is a set.
IsCacheSet == now' = now /\ cacheOp'.op = "set"

\* C27: set with a new key on a full cache removes exactly one entry, the one
\* least recently set (of the earliest createdAt); set on a key already
\* present removes none.
C27_SetEvictsTheOldest ==
    [][IsCacheSet =>
        LET removed == KeysOf(searchCache) \ KeysOf(searchCache')
        IN  IF cacheOp'.key \in KeysOf(searchCache) THEN removed = {}
            ELSE IF Len(searchCache) < MaxCacheSize THEN removed = {}
            ELSE /\ Cardinality(removed) = 1
                 /\ \A key \in removed, other \in KeysOf(searchCache) :
                       EntryOf(searchCache, key).createdAt
                           <= EntryOf(searchCache, other).createdAt]_vars

\* C28: a Cache never holds more than maxSize entries, and get never returns
\* a value whose TTL has elapsed: what it returns is the value of an entry
\* that has not expired; an expired entry is removed and reported as
\* undefined.
C28_BoundedAndNeverExpired ==
    [][/\ Len(searchCache') <= MaxCacheSize
       /\ (now' = now /\ cacheOp'.op = "get") =>
             LET at == CachePositions(searchCache, cacheOp'.key)
             IN  /\ cacheOp'.hit =>
                       \E i \in at : /\ now <= searchCache[i].expiresAt
                                      /\ cacheOp'.value = searchCache[i].value
                 /\ (\E i \in at : now > searchCache[i].expiresAt) =>
                       /\ ~cacheOp'.hit
                       /\ cacheOp'.key \notin KeysOf(searchCache')]_vars

\* A get found its entry expired and removed it from a cache that was full.
C28_Witness ==
    /\ cacheOp.op = "get"
    /\ cacheOp.expired
    /\ ~cacheOp.hit
    /\ Len(searchCache) = MaxCacheSize - 1

(***************************************************************************)
(* Properties of concurrent eBay calls (checked under SpecCalls).          *)
(***************************************************************************)
\* C29: the HTTP requests sent to the eBay API within one day never exceed
\* the daily limit, however the calls interleave and whether their requests
\* succeed or fail.
C29_RequestsWithinDailyLimit == httpRequests <= DailyLimit

====
